---- MODULE Spec2Model ----
(***************************************************************************)
(* Model of the Authenticated Forwarder of cf-proxy (commands/run.js):     *)
(* the request handler of run(), its shared token cache, isTokenExpired    *)
(* and fetchToken, as a state machine over the requests in flight.         *)
(*                                                                         *)
(* Request targets and Host headers are sequences of one-character         *)
(* strings, so that split, URL parsing and path.posix.join are computed    *)
(* and not assumed.  Header values and the token are optional strings: the *)
(* empty set is undefined/null, {s} is the string s.                       *)
(*                                                                         *)
(* SpecLife adds the start of run() and the SIGINT shutdown.  SpecBind and *)
(* SpecEnv model the Destination Binder (commands/bind.js): a bind run     *)
(* from the route check to the write of the .env artifact, with the        *)
(* binding directory as a function from file names to contents.            *)
(***************************************************************************)
EXTENDS Integers, Sequences, FiniteSets, TLC

\* Number of requests a behaviour of Spec receives.
MaxReqs == 3

\* Number of requests a behaviour of SpecWire receives.
MaxWireReqs == 2

\* Number of requests a behaviour of SpecLife receives.
MaxLifeReqs == 2

\* Number of requests a behaviour of SpecFrame receives.
MaxFrameReqs == 2

\* Number of bind runs a behaviour of SpecBind starts.
MaxBinds == 3

\* Number of bind runs a behaviour of SpecEnv starts.
MaxEnvBinds == 1

\* Number of artifact names that may be taken before the first bind run.
MaxPrior == 2

\* Number of bind runs a behaviour of SpecRace starts.
MaxRaceBinds == 2

\* Number of sshTunnel commands a behaviour of SpecTunnel runs.
MaxTunnelRuns == 1

----------------------------------------------------------------------------
\* JavaScript values

\* null / undefined
Null == {}

Str(s) == {s}

\* The string held by a present optional value.
Val(o) == CHOOSE s \in o : TRUE

\* !x for an optional string: null, undefined and "" are falsy.
Falsy(o) == o = Null \/ o = Str("")

----------------------------------------------------------------------------
\* Strings as character sequences

RECURSIVE IndexFrom(_, _, _)
\* First position >= i of s holding character c, 0 when there is none.
IndexFrom(s, c, i) ==
    IF i > Len(s) THEN 0
    ELSE IF s[i] = c THEN i
    ELSE IndexFrom(s, c, i + 1)

IndexOf(s, c) == IndexFrom(s, c, 1)

StartsWith(s, p) == Len(s) >= Len(p) /\ SubSeq(s, 1, Len(p)) = p

RECURSIVE Split(_, _)
\* String.prototype.split(sep) for a one-character separator.
Split(s, sep) ==
    LET i == IndexOf(s, sep)
    IN  IF i = 0 THEN <<s>>
        ELSE <<SubSeq(s, 1, i - 1)>> \o Split(SubSeq(s, i + 1, Len(s)), sep)

RECURSIVE JoinWith(_, _)
\* Array.prototype.join(sep)
JoinWith(parts, sep) ==
    IF Len(parts) = 0 THEN <<>>
    ELSE IF Len(parts) = 1 THEN parts[1]
    ELSE parts[1] \o <<sep>> \o JoinWith(Tail(parts), sep)

\* req.headers.host.split(".")[0]
Destination(host) == Split(host, ".")[1]

HttpScheme == <<"h", "t", "t", "p", ":", "/", "/">>

\* new URL(input) without a base: a target that has no scheme is rejected
\* with TypeError (ERR_INVALID_URL); otherwise host, pathname and search.
UrlValid(u) == StartsWith(u, HttpScheme)

UrlParse(u) ==
    LET rest  == SubSeq(u, Len(HttpScheme) + 1, Len(u))
        q     == IndexOf(rest, "?")
        noq   == IF q = 0 THEN rest ELSE SubSeq(rest, 1, q - 1)
        p     == IndexOf(noq, "/")
    IN  [host     |-> IF p = 0 THEN noq ELSE SubSeq(noq, 1, p - 1),
         pathname |-> IF p = 0 THEN <<"/">> ELSE SubSeq(noq, p, Len(noq)),
         search   |-> IF q = 0 THEN <<>> ELSE SubSeq(rest, q, Len(rest))]

\* url.href
Href(url) == HttpScheme \o url.host \o url.pathname \o url.search

RECURSIVE NormalizeSegments(_, _)
\* The segment walk of path.posix.normalize on an absolute path: empty and
\* "." segments are dropped, ".." removes the segment before it.
NormalizeSegments(segs, acc) ==
    IF Len(segs) = 0 THEN acc
    ELSE LET s == Head(segs)
         IN  IF s = <<>> \/ s = <<".">> THEN NormalizeSegments(Tail(segs), acc)
             ELSE IF s = <<".", ".">>
                  THEN NormalizeSegments(Tail(segs),
                           IF Len(acc) = 0 THEN acc
                           ELSE SubSeq(acc, 1, Len(acc) - 1))
                  ELSE NormalizeSegments(Tail(segs), Append(acc, s))

\* path.posix.join(a, b, c): the non-empty arguments joined with "/", then
\* normalized; a trailing slash of the joined path is kept.
PosixJoin(a, b, c) ==
    LET args   == SelectSeq(<<a, b, c>>, LAMBDA x : Len(x) > 0)
        joined == JoinWith(args, "/")
        segs   == NormalizeSegments(Split(joined, "/"), <<>>)
        body   == <<"/">> \o JoinWith(segs, "/")
    IN  IF Len(segs) > 0 /\ joined[Len(joined)] = "/"
        THEN body \o <<"/">>
        ELSE body

ProxyPrefix == <<"/", "p", "r", "o", "x", "y">>

\* Lines 109-119 for a target that parses: the rewritten req.url.
RewriteUrl(host, target) ==
    LET url == UrlParse(target)
    IN  Href([url EXCEPT !.pathname =
                  PosixJoin(ProxyPrefix, Destination(host), url.pathname)])

\* The path the proxying layer sends upstream for req.url: its path and query.
UpstreamPath(u) ==
    LET url == UrlParse(u) IN url.pathname \o url.search

----------------------------------------------------------------------------
\* Inbound requests

CrmLocal == <<"c", "r", "m", ".", "l", "o", "c", "a", "l">>

\* A Host header whose first label is empty.
DotLocal == <<".", "l", "o", "c", "a", "l">>

\* Origin-form request target /orders?id=5
OrdersPath == <<"/", "o", "r", "d", "e", "r", "s", "?", "i", "d", "=", "5">>

\* Absolute-form request target http://crm.local/orders?id=5
OrdersUrl == HttpScheme \o CrmLocal \o OrdersPath

Hosts == {CrmLocal, DotLocal}

Targets == {OrdersUrl, OrdersPath}

\* Values of an inbound Authorization header: none, empty, a credential.
ClientAuth == {Null, Str(""), Str("Bearer X")}

\* Values of an inbound x-approuter-authorization header.
ClientRelabel == {Null, Str("Bearer Y")}

Headers == [host : Hosts, authorization : ClientAuth,
            xApprouterAuthorization : ClientRelabel]

\* The requests a client can send: req.url and req.headers.
Inbound == [url : Targets, headers : Headers]

\* The requests of Spec: one caller, in proxy form and in origin form.
CoreInbound ==
    {m \in Inbound : /\ m.headers.host = CrmLocal
                     /\ m.headers.authorization = Str("Bearer X")
                     /\ m.headers.xApprouterAuthorization = Null}

\* Request methods and bodies, and values of an inbound Accept header.
Methods == {"GET", "POST"}

Bodies == {"", "{\"id\":5}"}

ClientAccept == {Null, Str("application/json")}

\* Requests with a method, a body and a header the handler does not name:
\* a GET without a body or a POST with one, with or without a credential.
FrameInbound ==
    {m \in [url     : {OrdersUrl},
            method  : Methods,
            body    : Bodies,
            headers : [host : {CrmLocal},
                       authorization : {Null, Str("Bearer X")},
                       xApprouterAuthorization : {Null},
                       accept : ClientAccept]] :
        (m.method = "GET") = (m.body = "")}

\* The token the k-th call of fetchToken resolves with.
TokenOf(k) == <<"t1", "t2", "t3", "t4", "t5", "t6">>[k]

\* The error argument of createSecurityContext's callback.
NoError == "none"

SecurityErrors == {NoError, "TokenExpiredError", "ValidationError"}

----------------------------------------------------------------------------
\* State

VARIABLES
    process,       \* "loading", "listening", "closing" (server.close called),
                   \* "exited" (process.exit(0)), "crashed" (uncaught
                   \* exception), "ended" (nothing left to run)
    rejections,    \* node's --unhandled-rejections mode: "throw" or "warn"
    token,         \* let token of run(): the shared cached token
    requests,      \* the handler invocations, in arrival order
    fetchLog,      \* the calls of fetchToken(): the token each caller had checked
    lastCompleted, \* the fetchToken() call that resolved last, 0 when none
    target,        \* process.env.CFDP_TARGET once the .env files are loaded
    started,       \* what run() has set up: proxy, server, SIGINT handler, listener
    files,         \* the binding directory: file name -> content
    binds,         \* the bind runs, one per process slot
    bindCount,     \* number of bind runs started
    netstat,       \* the connection table of the machine, as netstat -ano lists it
    tunnel,        \* the run of an sshTunnel command
    tunnelCount    \* number of sshTunnel commands started

\* What run() leaves alone once the server listens.
hostVars == <<target, started>>

\* The state of the Destination Binder.
bindVars == <<files, binds, bindCount>>

\* The state of the SSH tunnel commands.
tunnelVars == <<netstat, tunnel, tunnelCount>>

vars == <<process, rejections, token, requests, fetchLog, lastCompleted,
          hostVars, bindVars, tunnelVars>>

\* A handler invocation.  pc is its position: "checking" (suspended at line
\* 121), "fetching" (suspended at line 123), "forwarded" (proxy.web called),
\* "responded" (upstream exchange finished), "rejected" (the async handler's
\* promise rejected).  checked is the argument of isTokenExpired, error the
\* error createSecurityContext called back with, expired how the promise of
\* isTokenExpired settled, fetch the number of this handler's fetchToken()
\* call and fetched the token it resolved with.
NewRequest(m) ==
    [inbound      |-> m,
     req          |-> m,
     pc           |-> "received",
     checked      |-> Null,
     introspected |-> FALSE,
     error        |-> "pending",
     expired      |-> "pending",
     fetch        |-> 0,
     fetched      |-> Null,
     cause        |-> "none",
     res          |-> "none"]

\* What run() sets up, in the order of lines 105-142.
RunSetup == {"proxy", "server", "sigint", "listen"}

\* A Target Base as bind writes it.
BackendTarget == Str("https://backend.example.com")

\* A directory without files.
EmptyDir == [n \in {} |-> Null]

\* No handler has run yet (line 103: let token = null).
Fresh ==
    /\ rejections \in {"throw", "warn"}
    /\ token = Null
    /\ requests = <<>>
    /\ fetchLog = <<>>
    /\ lastCompleted = 0

\* No sshTunnel command is part of the behaviour.
NoTunnel ==
    /\ netstat = <<>>
    /\ tunnel = <<>>
    /\ tunnelCount = 0

\* No bind run is part of the behaviour.
NoBinder ==
    /\ files = EmptyDir
    /\ binds = <<>>
    /\ bindCount = 0

\* run() has returned: the server listens.
Init ==
    /\ process = "listening"
    /\ Fresh
    /\ target = BackendTarget
    /\ started = RunSetup
    /\ NoBinder
    /\ NoTunnel

----------------------------------------------------------------------------
\* isTokenExpired (lines 37-57)

\* Whether isTokenExpired(t) calls createSecurityContext.
Introspects(t) == ~Falsy(t)

\* A broadened retry: every introspection error counts as expiry.
IsTokenExpiredAnyError(t, error) ==
    IF Falsy(t) THEN "true"
    ELSE IF error = NoError THEN "false"
    ELSE "true"

\* The guard for an absent token answers "not expired".
IsTokenExpiredAbsentValid(t, error) ==
    IF Falsy(t) THEN "false"
    ELSE IF error = NoError THEN "false"
    ELSE IF error = "TokenExpiredError" THEN "true"
    ELSE "reject"

\* How the promise of isTokenExpired settles, given the callback's error.
IsTokenExpired(t, error) ==
    IF Falsy(t) THEN "true"
    ELSE IF error = NoError THEN "false"
    ELSE IF error = "TokenExpiredError" THEN "true"
    ELSE "reject"

----------------------------------------------------------------------------
\* The request handler (lines 107-133)

\* `Bearer ${t}`
Bearer(t) == Str("Bearer " \o (IF t = Null THEN "null" ELSE Val(t)))

\* Lines 126-132 with t the token line 130 reads: relabel the caller's
\* Authorization header, set the proxy token, hand the request to the proxy.
ForwardWith(r, t) ==
    LET h  == r.req.headers
        h1 == IF ~Falsy(h.authorization)
              THEN [h EXCEPT !.xApprouterAuthorization = h.authorization]
              ELSE h
    IN  [r EXCEPT !.req.headers = [h1 EXCEPT !.authorization = Bearer(t)],
                  !.pc = "forwarded"]

\* The token captured before the await of line 121 is the one sent.
ForwardedStale(r, t) == ForwardWith(r, r.checked)

\* A handler whose check reported not expired sends the token it checked.
ForwardedOwnCheck(r, t) ==
    ForwardWith(r, IF r.expired = "false" THEN r.checked ELSE t)

\* The relabelled header is written after the overwrite of line 130.
ForwardedLateRelabel(r, t) ==
    LET f == ForwardWith(r, t)
    IN  IF ~Falsy(r.req.headers.authorization)
        THEN [f EXCEPT !.req.headers.xApprouterAuthorization =
                           f.req.headers.authorization]
        ELSE f

\* The headers are built anew from the three the handler reads.
ForwardedBareHeaders(r, t) ==
    LET f == ForwardWith(r, t)
    IN  [f EXCEPT !.req.headers =
            [k \in {"host", "authorization", "xApprouterAuthorization"} |->
                f.req.headers[k]]]

\* Lines 126-132 in a handler that resumes while the cache holds t.
Forwarded(r, t) == ForwardWith(r, t)

\* Line 123, the call: fetchToken() number k starts and the handler suspends.
Fetching(r, k) == [r EXCEPT !.pc = "fetching", !.fetch = k]

\* The handler's promise rejects; nothing was written to res.
Rejected(r, why) == [r EXCEPT !.pc = "rejected", !.cause = why]

\* The handler holds a lock across its awaits: a suspended request keeps
\* every other suspended request from resuming.
ServingOneAtATime ==
    /\ process \in {"listening", "closing"}
    /\ Cardinality({i \in DOMAIN requests :
                       requests[i].pc \in {"checking", "fetching", "forwarded"}}) <= 1

\* The event loop runs: requests in flight go on, also after server.close().
Serving == process \in {"listening", "closing"}

\* A rejection of the handler's promise has no handler: createServer drops
\* the promise and the process registers no unhandledRejection listener.
\* Under --unhandled-rejections=throw (the default) an uncaught exception
\* ends the process; under warn the process goes on.
AfterRejection == IF rejections = "throw" THEN "crashed" ELSE process

\* Lines 121-132 from the point where isTokenExpired(r.checked) settles as
\* out: forward at once, call fetchToken() and suspend, or reject.
Resumed(r, out) ==
    LET r1 == [r EXCEPT !.expired = out]
    IN  CASE out = "false" -> Forwarded(r1, token)
          [] out = "true"  -> Fetching(r1, Len(fetchLog) + 1)
          [] OTHER         -> Rejected(r1, "introspection")

\* The effect of that resumption on the log of fetches and on the process.
ResumedEffects(r, out) ==
    /\ fetchLog' = IF out = "true" THEN Append(fetchLog, r.checked) ELSE fetchLog
    /\ process' = IF out \in {"true", "false"} THEN process ELSE AfterRejection

\* A request arrives and the handler runs to its first suspension.
\* new URL(req.url) throws on a target that is no absolute URL.  With no
\* token cached isTokenExpired returns an already resolved promise, so the
\* continuation runs in the same tick.
Receive(m, limit) ==
    /\ process = "listening"
    /\ Len(requests) < limit
    /\ LET r == NewRequest(m) IN
       IF ~UrlValid(m.url)
       THEN /\ requests' = Append(requests, Rejected(r, "url"))
            /\ process' = AfterRejection
            /\ UNCHANGED fetchLog
       ELSE LET r1 == [r EXCEPT !.req.url = RewriteUrl(m.headers.host, m.url),
                                !.checked = token,
                                !.introspected = Introspects(token)]
            IN  IF Introspects(token)
                THEN /\ requests' = Append(requests, [r1 EXCEPT !.pc = "checking"])
                     /\ UNCHANGED <<fetchLog, process>>
                ELSE LET out == IsTokenExpired(token, NoError)
                     IN  /\ requests' = Append(requests, Resumed(r1, out))
                         /\ ResumedEffects(r1, out)
    /\ UNCHANGED <<rejections, token, lastCompleted, hostVars, bindVars, tunnelVars>>

\* The cache is emptied when a check reports expiry, before the fetch.
CheckDoneInvalidating(i, error) ==
    /\ Serving
    /\ i \in DOMAIN requests
    /\ requests[i].pc = "checking"
    /\ LET r   == [requests[i] EXCEPT !.error = error]
           out == IsTokenExpired(r.checked, error)
       IN  /\ requests' = [requests EXCEPT ![i] = Resumed(r, out)]
           /\ ResumedEffects(r, out)
           /\ token' = IF out = "true" THEN Null ELSE token
    /\ UNCHANGED <<rejections, lastCompleted, hostVars, bindVars, tunnelVars>>

\* createSecurityContext calls back with error; the handler resumes at line
\* 122 and runs to its next suspension or to proxy.web.
CheckDone(i, error) ==
    /\ Serving
    /\ i \in DOMAIN requests
    /\ requests[i].pc = "checking"
    /\ LET r   == [requests[i] EXCEPT !.error = error]
           out == IsTokenExpired(r.checked, error)
       IN  /\ requests' = [requests EXCEPT ![i] = Resumed(r, out)]
           /\ ResumedEffects(r, out)
    /\ UNCHANGED <<rejections, token, lastCompleted, hostVars, bindVars, tunnelVars>>

\* Only the first token fetched is kept: token = token ?? await fetchToken().
AssignedFirstWins(k) == IF token = Null THEN Str(TokenOf(k)) ELSE token

\* The value line 123 assigns to token when fetchToken() number k resolves.
Assigned(k) == Str(TokenOf(k))

\* A failed fetch is retried instead of rejecting the handler's promise.
FetchDoneRetry(i, ok) ==
    /\ Serving
    /\ i \in DOMAIN requests
    /\ requests[i].pc = "fetching"
    /\ LET r == requests[i] IN
       IF ok
       THEN /\ token' = Assigned(r.fetch)
            /\ lastCompleted' = r.fetch
            /\ requests' = [requests EXCEPT ![i] =
                               Forwarded([r EXCEPT !.fetched = token'], token')]
            /\ UNCHANGED <<process, fetchLog>>
       ELSE /\ Len(fetchLog) < 6
            /\ requests' = [requests EXCEPT ![i] = Fetching(r, Len(fetchLog) + 1)]
            /\ fetchLog' = Append(fetchLog, r.checked)
            /\ UNCHANGED <<token, lastCompleted, process>>
    /\ UNCHANGED <<rejections, hostVars, bindVars, tunnelVars>>

\* A failed fetch empties the cache before the handler's promise rejects.
FetchDoneClearing(i, ok) ==
    /\ Serving
    /\ i \in DOMAIN requests
    /\ requests[i].pc = "fetching"
    /\ LET r == requests[i] IN
       IF ok
       THEN /\ token' = Assigned(r.fetch)
            /\ lastCompleted' = r.fetch
            /\ requests' = [requests EXCEPT ![i] =
                               Forwarded([r EXCEPT !.fetched = token'], token')]
            /\ UNCHANGED process
       ELSE /\ requests' = [requests EXCEPT ![i] = Rejected(r, "fetch")]
            /\ process' = AfterRejection
            /\ token' = Null
            /\ UNCHANGED lastCompleted
    /\ UNCHANGED <<rejections, fetchLog, hostVars, bindVars, tunnelVars>>

\* requestClientCredentialsToken calls back: with a token, line 123 assigns
\* it and the handler runs on to proxy.web; with an error the handler's
\* promise rejects and token keeps its value.
FetchDone(i, ok) ==
    /\ Serving
    /\ i \in DOMAIN requests
    /\ requests[i].pc = "fetching"
    /\ LET r == requests[i] IN
       IF ok
       THEN /\ token' = Assigned(r.fetch)
            /\ lastCompleted' = r.fetch
            /\ requests' = [requests EXCEPT ![i] =
                               Forwarded([r EXCEPT !.fetched = token'], token')]
            /\ UNCHANGED process
       ELSE /\ requests' = [requests EXCEPT ![i] = Rejected(r, "fetch")]
            /\ process' = AfterRejection
            /\ UNCHANGED <<token, lastCompleted>>
    /\ UNCHANGED <<rejections, fetchLog, hostVars, bindVars, tunnelVars>>

\* The upstream exchange of a forwarded request ends and its response has
\* been streamed back to the client.
Respond(i) ==
    /\ Serving
    /\ i \in DOMAIN requests
    /\ requests[i].pc = "forwarded"
    /\ requests' = [requests EXCEPT ![i].pc = "responded", ![i].res = "upstream"]
    /\ UNCHANGED <<process, rejections, token, fetchLog, lastCompleted,
                   hostVars, bindVars, tunnelVars>>

Next ==
    \/ \E m \in CoreInbound : Receive(m, MaxReqs)
    \/ \E i \in 1..MaxReqs, e \in SecurityErrors : CheckDone(i, e)
    \/ \E i \in 1..MaxReqs, ok \in BOOLEAN : FetchDone(i, ok)
    \/ \E i \in 1..MaxReqs : Respond(i)

Spec == Init /\ [][Next]_vars

\* The same handler, with requests drawn from every inbound request.
NextWire ==
    \/ \E m \in Inbound : Receive(m, MaxWireReqs)
    \/ \E i \in 1..MaxWireReqs, e \in SecurityErrors : CheckDone(i, e)
    \/ \E i \in 1..MaxWireReqs, ok \in BOOLEAN : FetchDone(i, ok)
    \/ \E i \in 1..MaxWireReqs : Respond(i)

SpecWire == Init /\ [][NextWire]_vars

\* The same handler, with requests that carry a method, a body and an
\* Accept header.
NextFrame ==
    \/ \E m \in FrameInbound : Receive(m, MaxFrameReqs)
    \/ \E i \in 1..MaxFrameReqs, e \in SecurityErrors : CheckDone(i, e)
    \/ \E i \in 1..MaxFrameReqs, ok \in BOOLEAN : FetchDone(i, ok)
    \/ \E i \in 1..MaxFrameReqs : Respond(i)

SpecFrame == Init /\ [][NextFrame]_vars

----------------------------------------------------------------------------
\* Startup and shutdown of the Forwarder (lines 97-151)

\* Values of CFDP_TARGET after loadFiles: not set, set empty, set.
EnvTargets == {Null, Str(""), BackendTarget}

\* The proxy is created before CFDP_TARGET is tested.
RunEffectsLateCheck(t) == IF Falsy(t) THEN {"proxy"} ELSE RunSetup

\* Lines 97-143: what run() has set up when it returns or throws.
RunEffects(t) == IF Falsy(t) THEN {} ELSE RunSetup

\* module.exports after loadFiles: run(port, log).  run is synchronous, so
\* it throws before anything is set up or returns with the server
\* listening.  The error of a throw is caught and printed by the command
\* line's wrapper, after which nothing keeps the process running.
Run ==
    /\ process = "loading"
    /\ started' = RunEffects(target)
    /\ process' = IF "listen" \in started' THEN "listening" ELSE "ended"
    /\ UNCHANGED <<rejections, token, requests, fetchLog, lastCompleted,
                   target, bindVars, tunnelVars>>

\* The requests whose connection is still open: no response has ended.
InFlight == {i \in DOMAIN requests : requests[i].pc # "responded"}

\* SIGINT arrives: the handler of line 135 calls server.close(), which stops
\* the listener and leaves open connections alone.
Sigint ==
    /\ process = "listening"
    /\ "sigint" \in started
    /\ process' = "closing"
    /\ UNCHANGED <<rejections, token, requests, fetchLog, lastCompleted,
                   hostVars, bindVars, tunnelVars>>

\* The exit happens as soon as SIGINT arrives, without server.close().
ClosedAtOnce ==
    /\ process = "closing"
    /\ process' = "exited"
    /\ UNCHANGED <<rejections, token, requests, fetchLog, lastCompleted,
                   hostVars, bindVars, tunnelVars>>

\* The callback of server.close (lines 136-139) runs once the listener is
\* closed and every connection has ended: process.exit(0).
Closed ==
    /\ process = "closing"
    /\ InFlight = {}
    /\ process' = "exited"
    /\ UNCHANGED <<rejections, token, requests, fetchLog, lastCompleted,
                   hostVars, bindVars, tunnelVars>>

\* The exit status of a process that has ended.
ExitStatus == IF process = "crashed" THEN 1 ELSE 0

InitLife ==
    /\ process = "loading"
    /\ Fresh
    /\ target \in EnvTargets
    /\ started = {}
    /\ NoBinder
    /\ NoTunnel

NextLife ==
    \/ Run
    \/ \E m \in CoreInbound : Receive(m, MaxLifeReqs)
    \/ \E i \in 1..MaxLifeReqs, e \in SecurityErrors : CheckDone(i, e)
    \/ \E i \in 1..MaxLifeReqs, ok \in BOOLEAN : FetchDone(i, ok)
    \/ \E i \in 1..MaxLifeReqs : Respond(i)
    \/ Sigint
    \/ Closed

SpecLife == InitLife /\ [][NextLife]_vars

\* server.close registers its callback on the listener's 'close' event,
\* which the event loop emits once the listener is closed and the last
\* connection has ended: from then on the callback stays runnable until it
\* runs.
FairLife == WF_vars(Closed)

SpecLifeFair == SpecLife /\ FairLife

----------------------------------------------------------------------------
\* Destination Binder (commands/bind.js): routes

HttpsScheme == <<"h", "t", "t", "p", "s", ":", "/", "/">>

\* ".cfapps."
CfAppsLabel == <<".", "c", "f", "a", "p", "p", "s", ".">>

\* ".hana.ondemand.com"
HanaSuffix == <<".", "h", "a", "n", "a", ".", "o", "n", "d", "e", "m", "a", "n", "d", ".", "c", "o", "m">>

\* The characters of [\w-] that routes are written in.
WordChars ==
    {"a", "b", "c", "d", "e", "f", "g", "h", "i", "j", "k", "l", "m", "n",
     "o", "p", "q", "r", "s", "t", "u", "v", "w", "x", "y", "z",
     "0", "1", "2", "3", "4", "5", "6", "7", "8", "9", "_", "-"}

\* s from position i on.
From(s, i) == SubSeq(s, i, Len(s))

RECURSIVE RunOf(_, _, _)
\* The longest prefix of s made of characters of the class: the characters
\* in chars when member holds ([...]), those outside it otherwise ([^...]).
RunOf(s, chars, member) ==
    IF Len(s) = 0 \/ ((Head(s) \in chars) # member) THEN <<>>
    ELSE <<Head(s)>> \o RunOf(Tail(s), chars, member)

\* The region when /\.cfapps\.([\w-]+)\.hana\.ondemand\.com/ matches s at
\* position i, the empty sequence when it does not.
RegionAt(s, i) ==
    LET rest   == From(s, i)
        region == RunOf(From(rest, Len(CfAppsLabel) + 1),
                        WordChars, TRUE)
    IN  IF /\ StartsWith(rest, CfAppsLabel)
           /\ Len(region) > 0
           /\ StartsWith(From(rest, Len(CfAppsLabel) + Len(region) + 1), HanaSuffix)
        THEN region
        ELSE <<>>

\* route.match(...): the positions where the pattern matches.
RouteMatches(route) == {i \in 1..Len(route) : RegionAt(route, i) # <<>>}

Min(S) == CHOOSE x \in S : \A y \in S : x <= y

\* match[1] of the leftmost match, empty when there is none.
Region(route) ==
    IF RouteMatches(route) = {} THEN <<>>
    ELSE RegionAt(route, Min(RouteMatches(route)))

\* Line 26: https://<service>.cf.<region>.hana.ondemand.com
ServiceUrl(service, region) ==
    HttpsScheme \o service \o <<".", "c", "f", ".">> \o region \o HanaSuffix

\* A URL is built for any route: the match is not tested.
GetCloudFoundryURLAny(route, service) == Str(ServiceUrl(service, Region(route)))

\* getCloudFoundryURL(route, service): Null stands for the Error thrown at
\* line 22 when the route does not match.
GetCloudFoundryURL(route, service) ==
    IF RouteMatches(route) = {} THEN Null
    ELSE Str(ServiceUrl(service, Region(route)))

\* Length of the prefix of s that (https?:\/\/) matches, 0 when none.
SchemeLen(s) ==
    IF StartsWith(s, HttpsScheme) THEN Len(HttpsScheme)
    ELSE IF StartsWith(s, HttpScheme) THEN Len(HttpScheme)
    ELSE 0

\* Line 90: url.match(/^(https?:\/\/)?([^.]+)/)[2], empty when no match.
\* The optional scheme is given up when no host character follows it.
HostLabel(url) ==
    LET n      == SchemeLen(url)
        after  == RunOf(From(url, n + 1), {"."}, FALSE)
    IN  IF n > 0 /\ Len(after) > 0 THEN after
        ELSE RunOf(url, {"."}, FALSE)

\* What ([^/]+)\/?$ captures of s, the empty sequence when it does not match.
HostOnly(s) ==
    LET h == RunOf(s, {"/"}, FALSE)
    IN  IF Len(h) > 0 /\ (From(s, Len(h) + 1) \in {<<>>, <<"/">>}) THEN h ELSE <<>>

\* Line 210: route.replace(/^(https?:\/\/)?([^/]+)\/?$/g, "https://$2").  A
\* route the pattern does not match is returned as it is.
TargetOf(route) ==
    LET n == SchemeLen(route)
    IN  IF n > 0 /\ HostOnly(From(route, n + 1)) # <<>>
        THEN HttpsScheme \o HostOnly(From(route, n + 1))
        ELSE IF HostOnly(route) # <<>>
        THEN HttpsScheme \o HostOnly(route)
        ELSE route

\* app.cfapps.eu10.hana.ondemand.com
AppHost == <<"a", "p", "p", ".", "c", "f", "a", "p", "p", "s", ".", "e", "u", "1", "0", ".", "h", "a", "n", "a", ".", "o", "n", "d", "e", "m", "a", "n", "d", ".", "c", "o", "m">>

BareRoute == AppHost

HttpRoute == HttpScheme \o AppHost

HttpsSlashRoute == HttpsScheme \o AppHost \o <<"/">>

\* A route with a trailing path.
HttpPathRoute == HttpScheme \o AppHost \o <<"/", "x">>

\* A route outside the pattern.
ForeignRoute == <<"a", "p", "p", ".", "e", "x", "a", "m", "p", "l", "e", ".", "c", "o", "m">>

\* A route that matches the pattern and has no host label.
NoHostRoute == <<".", "c", "f", "a", "p", "p", "s", ".", "e", "u", "1", "0", ".", "h", "a", "n", "a", ".", "o", "n", "d", "e", "m", "a", "n", "d", ".", "c", "o", "m">>

Routes ==
    {BareRoute, HttpRoute, HttpsSlashRoute, HttpPathRoute, ForeignRoute,
     NoHostRoute}

----------------------------------------------------------------------------
\* Destination Binder: values

\* The service argument of getCloudFoundryURL at lines 39 and 241.
ApiService == <<"a", "p", "i">>

\* options.port: the default of the CLI and one given with -p.
DefaultPort == "8887"

Ports == {DefaultPort, "9000"}

\* The instance names imported at line 8.
UaaInstance == "UAA_INSTANCE_NAME"

DestinationInstance == "DESTINATION_INSTANCE_NAME"

\* What String.prototype.trim removes (of the characters used here).
WhiteSpace == {" ", "\n"}

RECURSIVE TrimStart(_)
TrimStart(s) ==
    IF Len(s) > 0 /\ Head(s) \in WhiteSpace THEN TrimStart(Tail(s)) ELSE s

RECURSIVE TrimEnd(_)
TrimEnd(s) ==
    IF Len(s) > 0 /\ s[Len(s)] \in WhiteSpace
    THEN TrimEnd(SubSeq(s, 1, Len(s) - 1))
    ELSE s

Trim(s) == TrimEnd(TrimStart(s))

BearerWord == <<"b", "e", "a", "r", "e", "r">>

\* Outputs of "cf oauth-token": a session token, a token with a capital B,
\* and an empty line.
SessionOutput == BearerWord \o <<" ", "a", "\n">>

CapitalOutput == <<"B">> \o Tail(BearerWord) \o <<" ", "a", "\n">>

EmptyOutput == <<"\n">>

\* Results of execSync("cf oauth-token"): Null when it throws.
CoreExecResults == {Null, Str(SessionOutput)}

ExecResults == CoreExecResults \cup {Str(CapitalOutput), Str(EmptyOutput)}

\* Lines 42-44 and 61-62: the command returned and its trimmed output
\* starts with "bearer".
TokenUsable(out) == out # Null /\ StartsWith(Trim(Val(out)), BearerWord)

\* The commands authenticate() executes, with what they returned: the
\* login (its result is TRUE when it returned) only after an unusable first
\* token, the second "cf oauth-token" only after a login that returned.
AuthExecs(first, login, second) ==
    <<[cmd |-> "cf oauth-token", out |-> first]>> \o
    (IF TokenUsable(first) THEN <<>>
     ELSE <<[cmd |-> "cf login --sso", out |-> IF login THEN Str(<<>>) ELSE Null]>> \o
          (IF login THEN <<[cmd |-> "cf oauth-token", out |-> second]>> ELSE <<>>))

\* Any output of a command that returned is taken as the token.
AuthTokenAny(first, login, second) ==
    IF first # Null THEN Str(Trim(Val(first)))
    ELSE IF login /\ second # Null THEN Str(Trim(Val(second)))
    ELSE Null

\* The access_token authenticate() returns; Null when it throws "CF SSO
\* login failed." (line 74).
AuthToken(first, login, second) ==
    IF TokenUsable(first) THEN Str(Trim(Val(first)))
    ELSE IF login /\ TokenUsable(second) THEN Str(Trim(Val(second)))
    ELSE Null

\* Object spread {...a, ...b}: the keys of b win.
Merge(a, b) ==
    [k \in DOMAIN a \cup DOMAIN b |-> IF k \in DOMAIN b THEN b[k] ELSE a[k]]

\* The rest of an object after destructuring the keys.
Omit(obj, keys) == [k \in DOMAIN obj \ keys |-> obj[k]]

\* Responses of GET /destination-configuration/v1/subaccountDestinations.
EmptyCatalog == <<>>

PlainCatalog == <<[Name |-> "crm", Type |-> "HTTP"]>>

\* A destination with an additional property called url.
UrlCatalog ==
    <<[Name |-> "crm", Type |-> "HTTP"],
      [Name |-> "erp", url |-> "https://erp.example.com"]>>

Catalogs == {EmptyCatalog, PlainCatalog, UrlCatalog}

\* Lines 176-179: the result of getDestinationDetails.
DestinationDetails(catalog) ==
    [i \in DOMAIN catalog |->
        [name                 |-> catalog[i].Name,
         additionalProperties |-> Omit(catalog[i], {"Name"})]]

\* Lines 203-209: one entry of mappedDestinations.
MappedDestination(d, proxyPort) ==
    Merge([name      |-> d.name,
           url       |-> "http://" \o d.name \o ".dest",
           proxyHost |-> "http://127.0.0.1",
           proxyPort |-> proxyPort],
          d.additionalProperties)

\* Lines 200-213: the three entries of the artifact.  The credentials are
\* those of the identity-service binding.
BuildEnv(route, proxyPort, destinations) ==
    [VCAP_SERVICES |-> [name |-> UaaInstance, credentials |-> "credentials"],
     destinations  |-> [i \in DOMAIN destinations |->
                           MappedDestination(destinations[i], proxyPort)],
     CFDP_TARGET   |-> TargetOf(route)]

\* Lines 224-225 and 234: .env, .1.env, .2.env, ...
FileName(index) ==
    IF index = 0 THEN ".env" ELSE "." \o ToString(index) \o ".env"

\* writeFile(fileName, env): creates the file or replaces its content.
WriteFileTo(dir, name, content) ==
    [n \in DOMAIN dir \cup {name} |-> IF n = name THEN content ELSE dir[n]]

\* An artifact that was in the directory before the first run: one with
\* no destination and an empty Target Base, which no run writes.
PriorContent == BuildEnv(<<>>, DefaultPort, <<>>)

\* The directories a first run may find: any of the first names taken.
PriorDirs ==
    {[n \in names |-> PriorContent] :
        names \in SUBSET {FileName(k) : k \in 0..(MaxPrior - 1)}}

----------------------------------------------------------------------------
\* Destination Binder: a bind run

\* The process slots of bind runs.
Binders == {1, 2}

\* A slot without a run.  pc is the position of a run: "authenticate"
\* (line 242), "getAppGuid" (191), "uaa" (192), "destination" (194),
\* "catalog" (198), "writeEnv" (the loop test of 228-229), "writing"
\* (suspended at line 230), "done", "failed".  execs are the commands run
\* with their results, calls the HTTP requests with theirs, exit the exit
\* status of the process.
IdleBind ==
    [pc      |-> "idle",
     route   |-> <<>>,
     port    |-> DefaultPort,
     execs   |-> <<>>,
     calls   |-> <<>>,
     auth    |-> Null,
     catalog |-> Null,
     env     |-> Null,
     index   |-> 0,
     error   |-> Null,
     stderr  |-> <<>>,
     exit    |-> Null]

Ended == {"idle", "done", "failed"}

\* The action's promise rejects with message after printing lines: the
\* wrapper of the CLI catches the error, prints one "[error]" line and
\* returns.  Nothing sets an exit code, so the process ends with status 0.
Caught(b, message, lines) ==
    [b EXCEPT !.pc     = "failed",
              !.error  = Str(message),
              !.stderr = @ \o lines \o <<"[error] " \o message>>,
              !.exit   = Str(0)]

\* The action's promise resolves: the process ends with status 0.
Settled(b) == [b EXCEPT !.pc = "done", !.exit = Str(0)]

HttpCall(call, result) == [call |-> call, result |-> result]

BindFrame == UNCHANGED <<process, rejections, token, requests, fetchLog,
                         lastCompleted, hostVars, tunnelVars>>

\* Lines 239-241: a bind process starts and checks the route.
Bind(p, route, port, limit) ==
    /\ binds[p].pc \in Ended
    /\ bindCount < limit
    /\ bindCount' = bindCount + 1
    /\ LET b == [IdleBind EXCEPT !.route = route, !.port = port]
       IN  binds' = [binds EXCEPT ![p] =
              IF GetCloudFoundryURL(route, ApiService) = Null
              THEN Caught(b, "Invalid route format",
                          <<"[ERROR] Route parsing failed for:">>)
              ELSE [b EXCEPT !.pc = "authenticate"]]
    /\ UNCHANGED files
    /\ BindFrame

\* Lines 36-77: authenticate(route).
Authenticate(p, first, login, second) ==
    /\ binds[p].pc = "authenticate"
    /\ LET b      == binds[p]
           apiURL == GetCloudFoundryURL(b.route, ApiService)
           access == AuthToken(first, login, second)
           ran    == [b EXCEPT !.execs = AuthExecs(first, login, second)]
       IN  binds' = [binds EXCEPT ![p] =
              IF apiURL = Null
              THEN Caught(b, "Invalid route format",
                          <<"[ERROR] Route parsing failed for:">>)
              ELSE IF access = Null
              THEN Caught(ran, "CF SSO login failed.", <<>>)
              ELSE [ran EXCEPT
                      !.pc   = "getAppGuid",
                      !.auth = Str([baseURL       |-> Val(apiURL),
                                     Authorization |-> Val(access)])]]
    /\ UNCHANGED <<files, bindCount>>
    /\ BindFrame

RouteOutcomes == {"error", "none", "found"}

\* An empty route list is not noticed.
NoRouteIgnored(outcome) == FALSE

\* Line 123: response.data.resources[0] is undefined.
NoRoute(outcome) == outcome = "none"

\* Lines 87-124: getAppGuid(route, authContext).  "none" is a response
\* whose resources are empty: line 123 then reads a property of undefined
\* and a TypeError is thrown.
GetAppGuid(p, outcome) ==
    /\ binds[p].pc = "getAppGuid"
    /\ LET b      == binds[p]
           called == [b EXCEPT
                        !.calls = Append(@, HttpCall("GET /v3/routes", outcome))]
       IN  binds' = [binds EXCEPT ![p] =
              IF HostLabel(b.route) = <<>>
              THEN Caught(b, "Invalid host", <<>>)
              ELSE IF outcome = "error"
              THEN Caught(called, "Failed to fetch routes from Cloud Foundry API",
                          <<"[ERROR] API Request failed:",
                            "[ERROR] No response received:">>)
              ELSE IF NoRoute(outcome)
              THEN Caught(called,
                          "Cannot read properties of undefined (reading 'destinations')",
                          <<>>)
              ELSE [called EXCEPT !.pc = "uaa"]]
    /\ UNCHANGED <<files, bindCount>>
    /\ BindFrame

BindingOutcomes == {"error", "empty", "detailsError", "found"}

\* The requests getServiceCredentials makes: the details only for a
\* binding that was found.
CredentialCalls(outcome) ==
    <<HttpCall("GET /v3/service_credential_bindings",
               IF outcome = "error" THEN "error"
               ELSE IF outcome = "empty" THEN "empty" ELSE "found")>> \o
    (IF outcome \in {"detailsError", "found"}
     THEN <<HttpCall("GET details",
                     IF outcome = "found" THEN "found" ELSE "error")>>
     ELSE <<>>)

\* The length of the binding set is not tested.
NoBindingsIgnored(outcome) == FALSE

\* Line 142: !response.data.resources.length
NoBindings(outcome) == outcome = "empty"

\* Lines 135-149: getServiceCredentials(service, appGuid, authContext),
\* called at line 192 for the identity service and at line 194 for the
\* destination service.
GetServiceCredentials(p, outcome) ==
    /\ binds[p].pc \in {"uaa", "destination"}
    /\ LET b       == binds[p]
           service == IF b.pc = "uaa" THEN UaaInstance ELSE DestinationInstance
           called  == [b EXCEPT !.calls = @ \o CredentialCalls(outcome)]
       IN  binds' = [binds EXCEPT ![p] =
              IF outcome \in {"error", "detailsError"}
              THEN Caught(called, "Request failed", <<>>)
              ELSE IF NoBindings(outcome)
              THEN Caught(called,
                          "Bindings for " \o service
                              \o " not found. Check the deployed proxy for errors",
                          <<>>)
              ELSE [called EXCEPT
                      !.pc = IF b.pc = "uaa" THEN "destination" ELSE "catalog"]]
    /\ UNCHANGED <<files, bindCount>>
    /\ BindFrame

CatalogOutcomes == {"tokenError", "catalogError", "found"}

\* Lines 162-180 and 199-213: getDestinationDetails(destinationCredentials)
\* and, when it resolves, the rest of buildEnv.
GetDestinationDetails(p, outcome, catalog) ==
    /\ binds[p].pc = "catalog"
    /\ LET b      == binds[p]
           called == [b EXCEPT !.calls = @ \o
                <<HttpCall("POST /oauth/token",
                           IF outcome = "tokenError" THEN "error" ELSE "found")>> \o
                (IF outcome = "tokenError" THEN <<>>
                 ELSE <<HttpCall("GET /destination-configuration/v1/subaccountDestinations",
                                 IF outcome = "found" THEN "found" ELSE "error")>>)]
       IN  binds' = [binds EXCEPT ![p] =
              IF outcome # "found"
              THEN Caught(called, "Request failed", <<>>)
              ELSE [called EXCEPT
                      !.pc      = "writeEnv",
                      !.catalog = Str(catalog),
                      !.env     = Str(BuildEnv(b.route, b.port,
                                               DestinationDetails(catalog)))]]
    /\ UNCHANGED <<files, bindCount>>
    /\ BindFrame

\* The name is not tested: the base name is written.
ProbeNone(dir, index) == FALSE

\* Line 229: existsSync(fileName).
Probe(dir, index) == FileName(index) \in DOMAIN dir

\* Every other suffix is tried.
NextIndexSkip(index) == index + 2

\* Line 234: ++index
NextIndex(index) == index + 1

\* Lines 228-234: one turn of the loop of writeEnv.  A name that exists
\* leads to the next name; for a name that does not, writeFile is called
\* and the run is suspended until the file is written.
WriteEnv(p) ==
    /\ binds[p].pc = "writeEnv"
    /\ binds' = [binds EXCEPT ![p] =
          IF Probe(files, binds[p].index)
          THEN [@ EXCEPT !.index = NextIndex(@)]
          ELSE [@ EXCEPT !.pc = "writing"]]
    /\ UNCHANGED <<files, bindCount>>
    /\ BindFrame

\* Lines 230-232: writeFile settles.  When it fails (the directory is
\* missing or not writable) nothing is written and the run fails.
WriteFile(p, written) ==
    /\ binds[p].pc = "writing"
    /\ IF written
       THEN /\ files' = WriteFileTo(files, FileName(binds[p].index),
                                    Val(binds[p].env))
            /\ binds' = [binds EXCEPT ![p] = Settled(@)]
       ELSE /\ files' = files
            /\ binds' = [binds EXCEPT ![p] = Caught(@, "ENOENT", <<>>)]
    /\ UNCHANGED bindCount
    /\ BindFrame

\* No Forwarder is part of the behaviour.
NoForwarder ==
    /\ process = "absent"
    /\ rejections = "throw"
    /\ token = Null
    /\ requests = <<>>
    /\ fetchLog = <<>>
    /\ lastCompleted = 0
    /\ target = Null
    /\ started = {}

NoBindRun ==
    /\ binds = [p \in Binders |-> IdleBind]
    /\ bindCount = 0

\* Bind runs one after the other into one directory.
InitBind ==
    /\ NoForwarder
    /\ files \in PriorDirs
    /\ NoBindRun
    /\ NoTunnel

NextBind ==
    \/ \E route \in Routes : Bind(1, route, DefaultPort, MaxBinds)
    \/ \E first \in CoreExecResults, login \in BOOLEAN,
          second \in CoreExecResults : Authenticate(1, first, login, second)
    \/ \E outcome \in RouteOutcomes : GetAppGuid(1, outcome)
    \/ \E outcome \in BindingOutcomes : GetServiceCredentials(1, outcome)
    \/ \E outcome \in CatalogOutcomes : GetDestinationDetails(1, outcome, PlainCatalog)
    \/ WriteEnv(1)
    \/ \E written \in BOOLEAN : WriteFile(1, written)

SpecBind == InitBind /\ [][NextBind]_vars

\* The loop of writeEnv goes on while the run is in it, and writeFile
\* settles.
FairBind ==
    /\ WF_vars(WriteEnv(1))
    /\ WF_vars(\E written \in BOOLEAN : WriteFile(1, written))

SpecBindFair == SpecBind /\ FairBind

\* Bind runs over every route, port, command output and catalog.
InitEnv ==
    /\ NoForwarder
    /\ files = EmptyDir
    /\ NoBindRun
    /\ NoTunnel

NextEnv ==
    \/ \E route \in Routes, port \in Ports : Bind(1, route, port, MaxEnvBinds)
    \/ \E first \in ExecResults, login \in BOOLEAN,
          second \in ExecResults : Authenticate(1, first, login, second)
    \/ \E outcome \in RouteOutcomes : GetAppGuid(1, outcome)
    \/ \E outcome \in BindingOutcomes : GetServiceCredentials(1, outcome)
    \/ \E outcome \in CatalogOutcomes, catalog \in Catalogs :
          GetDestinationDetails(1, outcome, catalog)
    \/ WriteEnv(1)
    \/ \E written \in BOOLEAN : WriteFile(1, written)

SpecEnv == InitEnv /\ [][NextEnv]_vars

\* Two bind processes at a time into one directory: the one of slot p is
\* started with the port PortOf(p), so that their artifacts differ.
PortOf(p) == IF p = 1 THEN DefaultPort ELSE "9000"

NextRace ==
    \E p \in Binders :
        \/ Bind(p, BareRoute, PortOf(p), MaxRaceBinds)
        \/ Authenticate(p, Str(SessionOutput), FALSE, Null)
        \/ GetAppGuid(p, "found")
        \/ GetServiceCredentials(p, "found")
        \/ GetDestinationDetails(p, "found", PlainCatalog)
        \/ WriteEnv(p)
        \/ \E written \in BOOLEAN : WriteFile(p, written)

SpecRace == InitBind /\ [][NextRace]_vars

----------------------------------------------------------------------------
\* SSH tunnel commands (commands/sshTunnel.js): values

\* let attempts = 5
PollAttempts == 5

\* The default of --port: 1348.
DefaultSshPort == <<"1", "3", "4", "8">>

OtherPort == <<"2", "0", "0", "0">>

\* A port whose digits start with those of the default: 13480.
LongerPort == <<"1", "3", "4", "8", "0">>

\* The local port of an outgoing connection.
EphemeralPort == <<"5", "0", "1", "2", "3">>

\* The port of the foreign address 0.0.0.0:0 of a listening socket.
NoPort == <<"0">>

\* `${undefined}`
UndefinedText == <<"u", "n", "d", "e", "f", "i", "n", "e", "d">>

\* `${object}` for a plain object.
ObjectText == <<"[", "o", "b", "j", "e", "c", "t", " ", "O", "b", "j", "e", "c", "t", "]">>

\* A line of netstat -ano: the ports of the local and of the foreign
\* address, and the PID in the last column.
Line(local, foreign, pid) == [local |-> local, foreign |-> foreign, pid |-> pid]

\* A process listening on 1348, one listening on 13480, and a process with
\* a connection to port 1348 of another machine.
Listener1348 == Line(DefaultSshPort, NoPort, "4100")

Listener13480 == Line(LongerPort, NoPort, "5200")

Outgoing1348 == Line(EphemeralPort, DefaultSshPort, "6300")

Lines == {Listener1348, Listener13480, Outgoing1348}

\* The tables a command may find: up to two of the lines, in any order.
NetstatTables ==
    {<<>>} \cup {<<a>> : a \in Lines}
           \cup {l \in Lines \X Lines : l[1] # l[2]}

\* The PID of the cf ssh process that command n spawns.
ChildPid(n) == ToString(7000 + n)

\* findstr :<text> keeps the line: ":" followed by text occurs in it, which
\* is the case when a port of the line starts with text.
Finds(line, text) ==
    StartsWith(line.local, text) \/ StartsWith(line.foreign, text)

\* Lines 9-21: getProcessOnPort(port), with text the port as the template
\* literal of line 11 prints it.  Null when findstr finds no line (execSync
\* throws on its exit status) and else the last column of the first line.
GetProcessOnPort(table, text) ==
    LET lines == SelectSeq(table, LAMBDA l : Finds(l, text))
    IN  IF Len(lines) = 0 THEN Null ELSE Str(lines[1].pid)

\* Lines 29-35: taskkill /PID pid /F.  When it fails the process stays.
KillProcessByPid(table, pid, killed) ==
    IF killed THEN SelectSeq(table, LAMBDA l : l.pid # pid) ELSE table

\* Lines 105-113: stopTunnel(port) on a table: the table after it and the
\* lines it prints.
StopTunnelOn(table, text, killed) ==
    LET pid == GetProcessOnPort(table, text)
    IN  IF pid # Null
        THEN [table |-> KillProcessByPid(table, Val(pid), killed),
              pid   |-> pid,
              out   |-> (IF killed THEN <<>>
                         ELSE <<"Failed to terminate process">>)
                        \o <<"SSH tunnel has been stopped">>]
        ELSE [table |-> table,
              pid   |-> pid,
              out   |-> <<"No SSH tunnel found">>]

\* sshTunnel:start <cf_app> <remote_host> [port]: the port is Null when it
\* is left out.
StartArguments ==
    [cfApp : {"app"}, remoteHost : {"db"},
     port : {Null, Str(DefaultSshPort), Str(OtherPort)}]

\* sshTunnel:stop [--port <number>]: the option as given, Null when it is
\* left out.
StopArguments == {Null, Str(DefaultSshPort), Str(OtherPort)}

\* The third parameter of the action of sshTunnel:start: an optional
\* argument that is left out is undefined; no default is declared for it.
StartPort(args) == args.port

\* The options of sshTunnel:stop: --port with its default.
StopOptions(given) ==
    [port |-> IF given = Null THEN DefaultSshPort ELSE Val(given)]

\* `${port}` for the port parameter of startTunnel.
TemplateText(port) == IF port = Null THEN UndefinedText ELSE Val(port)

\* `${port}` for the port parameter of stopTunnel as the command calls it:
\* the command declares no argument, so the action's first parameter is
\* the options object.
ObjectTemplateText(options) == ObjectText

\* The text is a port number.
IsPortNumber(text) ==
    /\ Len(text) > 0
    /\ \A i \in DOMAIN text :
          text[i] \in {"0", "1", "2", "3", "4", "5", "6", "7", "8", "9"}

----------------------------------------------------------------------------
\* SSH tunnel commands: a run

\* No command has run.  pc is "sleeping" (suspended at line 78) or "done";
\* port is the port as the command prints it, spawned the -L argument of
\* the cf ssh process and child its PID, polls the result of each
\* getProcessOnPort of the loop, out the lines printed.
IdleTunnel ==
    [pc       |-> "idle",
     cmd      |-> "none",
     given    |-> Null,
     port     |-> <<>>,
     occupant |-> Null,
     spawned  |-> Null,
     child    |-> Null,
     attempts |-> 0,
     polls    |-> <<>>,
     started  |-> FALSE,
     out      |-> <<>>,
     exit     |-> Null]

TunnelFrame == UNCHANGED <<process, rejections, token, requests, fetchLog,
                           lastCompleted, hostVars, bindVars>>

\* Lines 56-78: startTunnel up to the first sleep.  A process found on the
\* port is stopped through stopTunnel, then cf ssh is spawned detached.
StartTunnel(args, killed) ==
    /\ tunnel.pc \in {"idle", "done"}
    /\ tunnelCount < MaxTunnelRuns
    /\ tunnelCount' = tunnelCount + 1
    /\ LET text == TemplateText(StartPort(args))
           pid  == GetProcessOnPort(netstat, text)
           stop == IF pid # Null
                   THEN StopTunnelOn(netstat, text, killed)
                   ELSE [table |-> netstat, pid |-> Null, out |-> <<>>]
       IN  /\ netstat' = stop.table
           /\ tunnel' = [IdleTunnel EXCEPT
                 !.pc       = "sleeping",
                 !.cmd      = "start",
                 !.given    = args.port,
                 !.port     = text,
                 !.occupant = pid,
                 !.spawned  = Str([localPort  |-> text,
                                   remoteHost |-> args.remoteHost,
                                   remotePort |-> text,
                                   cfApp      |-> args.cfApp]),
                 !.child    = Str(ChildPid(tunnelCount')),
                 !.attempts = PollAttempts,
                 !.out      = (IF pid # Null
                               THEN <<"Port is already in use">> ELSE <<>>)
                              \o stop.out \o <<"Establishing SSH tunnel...">>]
    /\ TunnelFrame

\* The cf ssh process starts to listen on the local port of its -L
\* argument: the port is a number and no process listens on it.
ChildListens(first) ==
    /\ tunnel.child # Null
    /\ LET port == Val(tunnel.spawned).localPort
           line == Line(port, NoPort, Val(tunnel.child))
       IN  /\ IsPortNumber(port)
           /\ \A i \in DOMAIN netstat :
                 /\ netstat[i].pid # Val(tunnel.child)
                 /\ ~(netstat[i].local = port /\ netstat[i].foreign = NoPort)
           /\ netstat' = IF first THEN <<line>> \o netstat
                         ELSE Append(netstat, line)
    /\ UNCHANGED <<tunnel, tunnelCount>>
    /\ TunnelFrame

\* Lines 77-92: one turn of the loop after its sleep, and the report once
\* the loop is left.
Poll ==
    /\ tunnel.pc = "sleeping"
    /\ LET pid    == GetProcessOnPort(netstat, tunnel.port)
           polled == [tunnel EXCEPT !.polls = Append(@, pid)]
       IN  tunnel' =
             IF pid # Null
             THEN [polled EXCEPT
                     !.pc      = "done",
                     !.started = TRUE,
                     !.out     = Append(@, "SSH tunnel started in the background"),
                     !.exit    = Str(0)]
             ELSE IF tunnel.attempts > 1
             THEN [polled EXCEPT
                     !.attempts = @ - 1,
                     !.out      = Append(@, "Waiting for SSH tunnel to start...")]
             ELSE [polled EXCEPT
                     !.pc       = "done",
                     !.attempts = @ - 1,
                     !.out      = @ \o <<"Waiting for SSH tunnel to start...",
                                         "Failed to start SSH tunnel within the timeout">>,
                     !.exit     = Str(0)]
    /\ UNCHANGED <<netstat, tunnelCount>>
    /\ TunnelFrame

\* sshTunnel:stop: the command calls stopTunnel(options, command).
StopTunnel(given, killed) ==
    /\ tunnel.pc \in {"idle", "done"}
    /\ tunnelCount < MaxTunnelRuns
    /\ tunnelCount' = tunnelCount + 1
    /\ LET text == ObjectTemplateText(StopOptions(given))
           stop == StopTunnelOn(netstat, text, killed)
       IN  /\ netstat' = stop.table
           /\ tunnel' = [IdleTunnel EXCEPT
                 !.pc       = "done",
                 !.cmd      = "stop",
                 !.given    = given,
                 !.port     = text,
                 !.occupant = stop.pid,
                 !.out      = stop.out,
                 !.exit     = Str(0)]
    /\ TunnelFrame

InitTunnel ==
    /\ NoForwarder
    /\ files = EmptyDir
    /\ binds = <<>>
    /\ bindCount = 0
    /\ netstat \in NetstatTables
    /\ tunnel = IdleTunnel
    /\ tunnelCount = 0

NextTunnel ==
    \/ \E args \in StartArguments, killed \in BOOLEAN : StartTunnel(args, killed)
    \/ \E first \in BOOLEAN : ChildListens(first)
    \/ Poll
    \/ \E given \in StopArguments, killed \in BOOLEAN : StopTunnel(given, killed)

SpecTunnel == InitTunnel /\ [][NextTunnel]_vars

\* The timer of sleep(1000) (lines 43-45, 78) fires: a loop that is
\* suspended in its sleep goes on.
FairTunnel == WF_vars(Poll)

SpecTunnelFair == SpecTunnel /\ FairTunnel

----------------------------------------------------------------------------
\* Properties

\* The handler of request i has called proxy.web.
Sent(i) == requests[i].pc \in {"forwarded", "responded"}

\* Request i is handed to the proxy in this step.
ForwardedNow(i) ==
    /\ requests'[i].pc = "forwarded"
    /\ (i \in DOMAIN requests => requests[i].pc # "forwarded")

\* The tokens a cache can hold.
Tokens == {Null} \cup {Str(TokenOf(k)) : k \in 1..6}

\* The calls of fetchToken() made by handlers that had checked token v.
FetchesFor(v) == {k \in DOMAIN fetchLog : fetchLog[k] = v}

\* The requests whose expiry check of token v reported expired.
ObserversOf(v) ==
    {i \in DOMAIN requests :
        requests[i].checked = v /\ requests[i].expired = "true"}

\* C1: a request whose expiry check reported expired is forwarded only after
\* its own token fetch has resolved; a request whose check reported not
\* expired makes no fetch, leaves the cached token as it was, and is
\* forwarded with that cached token.
TokenCacheCorrect ==
    [][\A i \in DOMAIN requests' :
          ForwardedNow(i) =>
              LET r == requests'[i] IN
              /\ r.expired \in {"true", "false"}
              /\ r.expired = "true" =>
                    /\ r.fetch # 0
                    /\ r.fetched # Null
                    /\ r.req.headers.authorization = Bearer(r.fetched)
              /\ r.expired = "false" =>
                    /\ r.fetch = 0
                    /\ r.fetched = Null
                    /\ fetchLog' = fetchLog
                    /\ token' = token
                    /\ r.req.headers.authorization = Bearer(token)]_vars

\* A request was forwarded with the cached token, unfetched, after another
\* request had fetched it.
TokenCacheWitness ==
    \E i, j \in DOMAIN requests :
        /\ Sent(i) /\ requests[i].expired = "true" /\ requests[i].fetched # Null
        /\ Sent(j) /\ requests[j].expired = "false" /\ requests[j].fetch = 0
        /\ requests[j].req.headers.authorization = Bearer(requests[i].fetched)

\* C2: the shared cache holds the token of the fetch that resolved last,
\* whichever fetch started first.
LastFetchWins ==
    token = IF lastCompleted = 0 THEN Null ELSE Str(TokenOf(lastCompleted))

\* Two requests fetched concurrently; the fetch that started first resolved
\* last and its token is the cached one.
LastFetchWinsWitness ==
    \E i, j \in DOMAIN requests :
        /\ requests[i].fetch = 1 /\ requests[j].fetch = 2
        /\ Sent(i) /\ Sent(j)
        /\ lastCompleted = 1
        /\ token = Str(TokenOf(1))

\* C3 as stated: at most two fetches for one expired token.
AtMostOneRedundantFetch ==
    \A v \in Tokens : Cardinality(FetchesFor(v)) <= 2

\* C3 amended: the fetches for one expired token are at most as many as the
\* requests whose check reported that token expired.
FetchesBoundedByObservers ==
    \A v \in Tokens : Cardinality(FetchesFor(v)) <= Cardinality(ObserversOf(v))

\* Three requests in flight observed the same absent token and each fetched.
ThreeFetchesOneExpiry ==
    \E v \in Tokens :
        /\ Cardinality(FetchesFor(v)) >= 3
        /\ Cardinality(ObserversOf(v)) >= 3

\* C4: the upstream Authorization header of a forwarded request is a token
\* that a fetch resolved with: never the null cache, never the caller's own
\* credential.
NeverIncorrectToken ==
    \A i \in DOMAIN requests :
        Sent(i) =>
            LET a == requests[i].req.headers.authorization IN
            /\ a # Bearer(Null)
            /\ a # requests[i].inbound.headers.authorization
            /\ \E j \in DOMAIN requests :
                  /\ requests[j].fetched # Null
                  /\ a = Bearer(requests[j].fetched)

\* Two requests with a credential of their own were forwarded while their
\* fetches raced.
NeverIncorrectTokenWitness ==
    \E i, j \in DOMAIN requests :
        /\ i # j /\ Sent(i) /\ Sent(j)
        /\ requests[i].inbound.headers.authorization = Str("Bearer X")
        /\ requests[j].inbound.headers.authorization = Str("Bearer X")
        /\ requests[i].fetched # Null /\ requests[j].fetched # Null
        /\ requests[i].req.headers.authorization = Bearer(requests[i].fetched)
        /\ requests[j].req.headers.authorization = Bearer(requests[j].fetched)

\* C5 as stated: after a token error of one request the process is still
\* listening.
TokenErrorAbortsOnlyRequest ==
    \A i \in DOMAIN requests :
        requests[i].cause \in {"introspection", "fetch"} => process = "listening"

\* C6 as stated: a request whose token resolution failed has been answered
\* with a 5xx response once its handler has ended.
TokenErrorAnswered ==
    \A i \in DOMAIN requests :
        requests[i].cause \in {"introspection", "fetch"} => requests[i].res = "5xx"

\* C7: an absent token is expired without an introspection call; the error
\* TokenExpiredError is expired and a fetch follows; no error is not expired
\* and no fetch follows; any other error rejects and no fetch follows.
ExpirySplit ==
    \A i \in DOMAIN requests :
        LET r == requests[i] IN
        /\ (r.pc # "rejected" /\ r.checked = Null) =>
              ~r.introspected /\ r.error = "pending" /\ r.expired = "true" /\ r.fetch # 0
        /\ r.introspected => r.checked # Null
        /\ r.error = "TokenExpiredError" => r.expired = "true" /\ r.fetch # 0
        /\ r.error = NoError =>
              r.expired = "false" /\ r.fetch = 0 /\ r.pc # "rejected"
        /\ r.error = "ValidationError" =>
              r.expired = "reject" /\ r.fetch = 0 /\ r.pc = "rejected"

\* All three outcomes of an introspection, and the absent token, occurred.
ExpirySplitWitness ==
    \E i, j, k \in DOMAIN requests :
        /\ requests[i].checked = Null /\ requests[i].fetch # 0
        /\ requests[j].error = "TokenExpiredError" /\ requests[j].fetch # 0
        /\ requests[k].error = "ValidationError" /\ requests[k].pc = "rejected"

\* C8 as stated: a forwarded request that arrived with an Authorization
\* header X carries x-approuter-authorization X and Authorization Bearer
\* plus the cached token upstream, never X.
HeaderTransformation ==
    [][\A i \in DOMAIN requests' :
          (ForwardedNow(i) /\ requests'[i].inbound.headers.authorization # Null) =>
              LET r == requests'[i] IN
              /\ r.req.headers.xApprouterAuthorization =
                     r.inbound.headers.authorization
              /\ r.req.headers.authorization = Bearer(token')
              /\ token' # Null
              /\ r.req.headers.authorization # r.inbound.headers.authorization]_vars

\* C8 amended: the same for a non-empty Authorization header X.
HeaderTransformationNonEmpty ==
    [][\A i \in DOMAIN requests' :
          (ForwardedNow(i) /\ ~Falsy(requests'[i].inbound.headers.authorization)) =>
              LET r == requests'[i] IN
              /\ r.req.headers.xApprouterAuthorization =
                     r.inbound.headers.authorization
              /\ r.req.headers.authorization = Bearer(token')
              /\ token' # Null
              /\ r.req.headers.authorization # r.inbound.headers.authorization]_vars

\* A request that brought both an Authorization header and a relabelled
\* header of its own was forwarded.
HeaderTransformationWitness ==
    \E i \in DOMAIN requests :
        /\ Sent(i)
        /\ requests[i].inbound.headers.authorization = Str("Bearer X")
        /\ requests[i].inbound.headers.xApprouterAuthorization = Str("Bearer Y")
        /\ requests[i].req.headers.xApprouterAuthorization = Str("Bearer X")

\* C9 as stated: upstream sees x-approuter-authorization only when the
\* request had an Authorization header, and then with that header's value.
RelabelOnlyFromAuthorization ==
    \A i \in DOMAIN requests :
        (Sent(i) /\ requests[i].req.headers.xApprouterAuthorization # Null) =>
            /\ requests[i].inbound.headers.authorization # Null
            /\ requests[i].req.headers.xApprouterAuthorization =
                   requests[i].inbound.headers.authorization

\* The path and query of a request target as the client sent it.
OriginalPath(u) ==
    IF UrlValid(u) THEN UpstreamPath(u) ELSE u

\* C10 as stated: every request, origin-form targets and empty host labels
\* included, goes upstream with path /proxy/<destination><original path>.
PathRewrite ==
    \A i \in DOMAIN requests :
        LET r == requests[i] IN
        /\ r.cause # "url"
        /\ UpstreamPath(r.req.url) =
               ProxyPrefix \o <<"/">> \o Destination(r.inbound.headers.host)
                   \o OriginalPath(r.inbound.url)

\* C11: with CFDP_TARGET absent, run fails before the proxy, the server and
\* the SIGINT handler exist and before the listener opens; the server never
\* listens.
NoTargetNoListener ==
    Falsy(target) =>
        /\ started = {}
        /\ process \in {"loading", "ended"}
        /\ requests = <<>>

\* run has thrown on an absent CFDP_TARGET.
NoTargetWitness == Falsy(target) /\ process = "ended"

----------------------------------------------------------------------------
\* Properties of the Destination Binder

\* Run p gets its artifact written in this step.
Written(p) == binds[p].pc = "writing" /\ binds'[p].pc = "done"

\* C13: in a sequence of bind runs into one directory the directory changes
\* only when a run writes its artifact; the run writes a name that did not
\* exist, every file that existed keeps its content, and with the artifacts
\* .env, .1.env, ..., .(N-2).env present the name written is .(N-1).env.
NoClobber ==
    [][/\ files' # files => \E p \in Binders : Written(p)
       /\ \A p \in Binders : Written(p) =>
             LET name == FileName(binds[p].index)
                 n    == Cardinality(DOMAIN files)
             IN  /\ name \notin DOMAIN files
                 /\ DOMAIN files' = DOMAIN files \cup {name}
                 /\ files'[name] = Val(binds[p].env)
                 /\ \A f \in DOMAIN files : files'[f] = files[f]
                 /\ (DOMAIN files = {FileName(k) : k \in 0..(n - 1)})
                        => name = FileName(n)]_vars

\* The third run into a directory that was empty has written .2.env next
\* to the artifacts of the first two.
NoClobberWitness ==
    /\ binds[1].pc = "done"
    /\ binds[1].index = 2
    /\ DOMAIN files = {FileName(0), FileName(1), FileName(2)}
    /\ \A f \in DOMAIN files : files[f] # PriorContent

\* The requests of a run in which every discovery step succeeded: the
\* route, the two bindings with their details, the token and the catalog.
SuccessCalls ==
    <<HttpCall("GET /v3/routes", "found"),
      HttpCall("GET /v3/service_credential_bindings", "found"),
      HttpCall("GET details", "found"),
      HttpCall("GET /v3/service_credential_bindings", "found"),
      HttpCall("GET details", "found"),
      HttpCall("POST /oauth/token", "found"),
      HttpCall("GET /destination-configuration/v1/subaccountDestinations", "found")>>

AllDiscovered(b) ==
    /\ b.auth # Null
    /\ b.calls = SuccessCalls
    /\ b.catalog # Null

\* C14: the directory changes only in the write of a run whose
\* authentication, app-id resolution, two binding lookups and catalog query
\* have all succeeded; a run in which one of them fails ends there with an
\* error, takes no further step and leaves every file as it was.
BinderAtomic ==
    [][/\ files' # files =>
             \E p \in Binders : Written(p) /\ AllDiscovered(binds[p])
       /\ \A p \in Binders :
             /\ binds[p].pc \in {"writeEnv", "writing"} => AllDiscovered(binds[p])
             /\ (binds[p].pc \notin (Ended \cup {"writing"}) /\ binds'[p].pc = "failed") =>
                    /\ binds'[p].error # Null
                    /\ binds'[p].env = Null
                    /\ files' = files
             /\ (binds[p].pc = "failed" /\ binds'[p] # binds[p]) =>
                    /\ bindCount' = bindCount + 1
                    /\ binds'[p].calls = <<>>
                    /\ binds'[p].execs = <<>>
                    /\ files' = files]_vars

\* A run has failed in its last discovery step, the catalog query, after
\* six requests, and the directory is still empty.
BinderAtomicWitness ==
    /\ binds[1].pc = "failed"
    /\ Len(binds[1].calls) = Len(SuccessCalls)
    /\ binds[1].calls[Len(SuccessCalls)].result = "error"
    /\ files = EmptyDir

LooksBearer(out) == out # Null /\ StartsWith(Trim(Val(out)), BearerWord)

\* C16: in a run that has authenticated or failed to, the first command was
\* "cf oauth-token"; "cf login --sso" was started exactly when that command
\* failed or printed a token not starting with "bearer", and at most once; a
\* context is returned only with a token starting with "bearer", together
\* with the API URL of the route's region; and the run fails with "CF SSO
\* login failed." exactly when neither path gave such a token.
AuthenticationOrder ==
    \A p \in Binders :
        LET b      == binds[p]
            x      == b.execs
            logins == {i \in DOMAIN x : x[i].cmd = "cf login --sso"}
        IN  x # <<>> =>
              /\ x[1].cmd = "cf oauth-token"
              /\ (logins # {}) <=> ~LooksBearer(x[1].out)
              /\ logins \subseteq {2}
              /\ \A i \in DOMAIN x : i > 2 =>
                    /\ i = 3
                    /\ x[i].cmd = "cf oauth-token"
                    /\ x[2].out # Null
              /\ b.auth # Null =>
                    /\ StartsWith(Val(b.auth).Authorization, BearerWord)
                    /\ Val(b.auth).Authorization = Trim(Val(x[Len(x)].out))
                    /\ Val(b.auth).baseURL = ServiceUrl(ApiService, Region(b.route))
              /\ (b.auth = Null) <=> ~LooksBearer(x[Len(x)].out)
              /\ b.auth = Null =>
                    /\ b.pc = "failed"
                    /\ b.error = Str("CF SSO login failed.")
                    /\ b.calls = <<>>

\* The session token had a capital B, the login was started and the token
\* printed after it was accepted.
AuthenticationWitness ==
    /\ Len(binds[1].execs) = 3
    /\ binds[1].execs[1].out = Str(CapitalOutput)
    /\ binds[1].auth # Null

\* The message of line 143 for a service.
BindingsNotFound(service) ==
    "Bindings for " \o service \o " not found. Check the deployed proxy for errors"

FailureExitsNonZero ==
    \A p \in Binders :
        binds[p].pc = "failed" =>
            /\ Len(binds[p].stderr) = 1
            /\ binds[p].exit \notin {Null, Str(0)}

\* The characters of a string.
Chars(s) == {s[i] : i \in DOMAIN s}

\* C19: the Target Base of every artifact built is https:// followed by a
\* host: a non-empty string without "/".
TargetIsHttpsHost ==
    \A p \in Binders :
        binds[p].env # Null =>
            LET t    == Val(binds[p].env).CFDP_TARGET
                host == From(t, Len(HttpsScheme) + 1)
            IN  /\ StartsWith(t, HttpsScheme)
                /\ Len(host) > 0
                /\ "/" \notin Chars(host)

\* C20: the artifact has one destinations entry per catalog destination, in
\* order, with the destination's name, the url http://<name>.dest, the
\* proxyHost http://127.0.0.1, the proxyPort of the options and every other
\* attribute of the catalog entry with its value.
DestinationEntries ==
    \A p \in Binders :
        binds[p].env # Null =>
            LET catalog == Val(binds[p].catalog)
                entries == Val(binds[p].env).destinations
            IN  /\ Len(entries) = Len(catalog)
                /\ \A i \in DOMAIN catalog :
                      /\ entries[i].name = catalog[i].Name
                      /\ entries[i].url = "http://" \o catalog[i].Name \o ".dest"
                      /\ entries[i].proxyHost = "http://127.0.0.1"
                      /\ entries[i].proxyPort = binds[p].port
                      /\ \A k \in DOMAIN catalog[i] \ {"Name"} :
                            entries[i][k] = catalog[i][k]

----------------------------------------------------------------------------
\* Properties of the handler's frame

\* The headers the handler writes.
WrittenHeaders == {"authorization", "xApprouterAuthorization"}

\* C21: a request handed to the proxying layer has the method and the body
\* it arrived with, and every header other than Authorization and
\* x-approuter-authorization with the value it arrived with (none added,
\* none removed).
FrameUnchanged ==
    \A i \in DOMAIN requests :
        LET r == requests[i]
        IN  r.pc \in {"forwarded", "responded"} =>
              /\ r.req.method = r.inbound.method
              /\ r.req.body = r.inbound.body
              /\ DOMAIN r.req.headers = DOMAIN r.inbound.headers
              /\ \A k \in DOMAIN r.inbound.headers \ WrittenHeaders :
                    r.req.headers[k] = r.inbound.headers[k]

\* A POST with a body, an Accept header and a credential has been forwarded
\* with its Authorization header overwritten and relabelled.
FrameUnchangedWitness ==
    \E i \in DOMAIN requests :
        LET r == requests[i]
        IN  /\ r.pc = "forwarded"
            /\ r.inbound.method = "POST"
            /\ r.inbound.body # ""
            /\ r.inbound.headers.accept # Null
            /\ r.req.headers.xApprouterAuthorization = Str("Bearer X")
            /\ r.req.headers.authorization # r.inbound.headers.authorization
            /\ r.req.url # r.inbound.url

----------------------------------------------------------------------------
\* Properties of the SSH tunnel commands

\* The port a command is meant for: the one given, 1348 when none is.
MeantPort == IF tunnel.given = Null THEN DefaultSshPort ELSE Val(tunnel.given)

\* The table has a process listening on the port.
Listening(table, port) ==
    \E i \in DOMAIN table : table[i].local = port /\ table[i].foreign = NoPort

\* C22: the cf ssh process of sshTunnel:start forwards the local port given
\* on the command line, and port 1348 when none is given.
StartOnMeantPort ==
    tunnel.cmd = "start" => Val(tunnel.spawned).localPort = MeantPort

\* C23: after sshTunnel:stop, "No SSH tunnel found" has been printed only
\* if no process listens on the port of --port (1348 when left out), and a
\* process still listens on it only if terminating it failed.
StopOnMeantPort ==
    tunnel.cmd = "stop" =>
        /\ "No SSH tunnel found" \in Chars(tunnel.out) => ~Listening(netstat, MeantPort)
        /\ Listening(netstat, MeantPort) =>
              "Failed to terminate process" \in Chars(tunnel.out)

----------------------------------------------------------------------------
\* Properties of concurrent bind runs

\* C24: with two bind runs at a time in one directory, a run never writes
\* a name that exists, and two runs that have both written hold different
\* names, each with the artifact of its run.
NoRaceOverwrite ==
    [][\A p \in Binders : Written(p) =>
          /\ FileName(binds[p].index) \notin DOMAIN files
          /\ \A q \in Binders \ {p} :
                binds[q].pc = "done" =>
                   /\ binds[q].index # binds[p].index
                   /\ files'[FileName(binds[q].index)] = Val(binds[q].env)]_vars

----------------------------------------------------------------------------
\* Properties of writeEnv

\* Run p is in writeEnv.
InWriteEnv(p) == binds[p].pc \in {"writeEnv", "writing"}

\* C25: each turn of the loop of writeEnv probes the name of the current
\* suffix, once: a name in use leads to the next suffix and a free one is
\* the name written.  Every lower name was in use, so the file goes to the
\* first unused name; it is the one file the run adds.  The number of
\* names probed in vain is at most the number of files, and a run that
\* enters writeEnv leaves it.
FirstUnusedName ==
    /\ [][\A p \in Binders :
            LET b    == binds[p]
                name == FileName(b.index)
            IN  /\ (b.pc = "writeEnv" /\ binds'[p] # b) =>
                      IF name \in DOMAIN files
                      THEN binds'[p] = [b EXCEPT !.index = b.index + 1]
                      ELSE binds'[p] = [b EXCEPT !.pc = "writing"]
                /\ InWriteEnv(p) =>
                      /\ \A k \in 0..(b.index - 1) : FileName(k) \in DOMAIN files
                      /\ b.index <= Cardinality(DOMAIN files)
                      /\ b.pc = "writing" => name \notin DOMAIN files
                /\ (b.pc = "writing" /\ binds'[p] # b) =>
                      /\ binds'[p].index = b.index
                      /\ binds'[p].pc \in {"done", "failed"}
                      /\ files' # files =>
                            /\ binds'[p].pc = "done"
                            /\ DOMAIN files' = DOMAIN files \cup {name}
                            /\ Cardinality(DOMAIN files') =
                                  Cardinality(DOMAIN files) + 1]_vars
    /\ \A p \in Binders : InWriteEnv(p) ~> binds[p].pc \in {"done", "failed"}

\* With only .1.env in the directory a run has written .env, the first
\* unused name, below the suffix that exists.
FirstUnusedWitness ==
    /\ binds[1].pc = "done"
    /\ binds[1].index = 0
    /\ DOMAIN files = {FileName(0), FileName(1)}
    /\ files[FileName(1)] = PriorContent
    /\ bindCount = 1

\* C26: no request waits for another.  While the event loop runs, every
\* suspended request can resume, with any outcome of its expiry check or
\* its fetch, whatever the other requests are doing, and while the server
\* listens a further request can be accepted.
RequestsIndependent ==
    /\ \A i \in DOMAIN requests :
          process \in {"listening", "closing"} =>
              /\ requests[i].pc = "checking" =>
                    \A e \in SecurityErrors : ENABLED CheckDone(i, e)
              /\ requests[i].pc = "fetching" =>
                    \A ok \in BOOLEAN : ENABLED FetchDone(i, ok)
              /\ requests[i].pc = "forwarded" => ENABLED Respond(i)
    /\ (process = "listening" /\ Len(requests) < MaxReqs) =>
          ENABLED (\E m \in CoreInbound : Receive(m, MaxReqs))

\* A request that arrived later was accepted, found its token not expired
\* and was forwarded while an earlier request was still suspended in its
\* token fetch.
OvertakingWitness ==
    \E i, j \in DOMAIN requests :
        /\ i < j
        /\ requests[i].pc = "fetching"
        /\ requests[j].checked # Null
        /\ Sent(j) /\ requests[j].expired = "false"

\* After SIGINT, if every request in flight comes to its end, the process
\* exits with status 0.
ShutdownCompletes ==
    [](process = "closing" => <>(InFlight = {}))
        => [](process = "closing" => <>(process = "exited" /\ ExitStatus = 0))

\* While it listens the process ends in no other way than by SIGINT.
ListeningUntilSigint ==
    [][process = "listening" => process' \in {"listening", "closing"}]_vars

\* C27 as stated: after SIGINT the process exits with status 0 once the
\* requests in flight have completed, and without SIGINT a listening
\* Forwarder never ends.
ShutdownLiveness == ShutdownCompletes /\ ListeningUntilSigint

\* The token resolution of request i has failed.
TokenFailed(r) == r.pc = "rejected" /\ r.cause \in {"introspection", "fetch"}

\* C28: the cached token changes only in the step in which a request's own
\* fetch has succeeded, so no step of a request whose check or fetch fails
\* changes it; such a request has assigned no token, and it stays as it was
\* rejected: its headers are never rewritten and it never reaches the proxy.
FailureLeavesToken ==
    [][/\ token' # token =>
             \E i \in DOMAIN requests :
                 /\ requests[i].pc = "fetching"
                 /\ requests'[i].pc = "forwarded"
                 /\ requests'[i].fetched = token'
       /\ \A i \in DOMAIN requests' :
             TokenFailed(requests'[i]) =>
                 /\ (i \notin DOMAIN requests \/ ~TokenFailed(requests[i])) =>
                       token' = token /\ lastCompleted' = lastCompleted
                 /\ requests'[i].fetched = Null
                 /\ requests'[i].req.headers = requests'[i].inbound.headers
                 /\ requests'[i].fetch # 0 => lastCompleted' # requests'[i].fetch
       /\ \A i \in DOMAIN requests :
             TokenFailed(requests[i]) => requests'[i] = requests[i]]_vars

\* One request was rejected by its expiry check and another by its fetch
\* while the cache held a token, and the cache still holds that token.
FailureLeavesTokenWitness ==
    \E i, j \in DOMAIN requests :
        /\ TokenFailed(requests[i]) /\ requests[i].cause = "introspection"
        /\ TokenFailed(requests[j]) /\ requests[j].cause = "fetch"
        /\ requests[i].checked # Null
        /\ token = requests[i].checked
        /\ token = requests[j].checked

\* C29 as stated: a forwarded request carries the token its own expiry
\* check reported not expired, or the token its own fetch returned.
OwnTokenForwarded ==
    \A i \in DOMAIN requests :
        Sent(i) =>
            LET r == requests[i] IN
            r.req.headers.authorization =
                Bearer(IF r.expired = "false" THEN r.checked ELSE r.fetched)

\* C29 amended: a request is forwarded with the token the cache holds at
\* that moment: the token of its own fetch when it fetched, and otherwise
\* the token it checked or one that another request's fetch has stored
\* since.
CacheTokenForwarded ==
    [][\A i \in DOMAIN requests' :
          ForwardedNow(i) =>
              LET r == requests'[i] IN
              /\ r.req.headers.authorization = Bearer(token')
              /\ r.expired = "true" => token' = r.fetched /\ r.fetched # Null
              /\ r.expired = "false" =>
                    /\ token' = token
                    /\ \/ token = r.checked
                       \/ \E j \in DOMAIN requests \ {i} :
                             /\ Sent(j)
                             /\ requests[j].fetched = token]_vars

\* A request whose check of one token reported not expired was forwarded
\* with another token, which a different request had fetched meanwhile.
ForeignTokenForwarded ==
    \E i, j \in DOMAIN requests :
        /\ i # j
        /\ Sent(i) /\ requests[i].expired = "false"
        /\ Sent(j) /\ requests[j].fetched # Null
        /\ requests[j].fetched # requests[i].checked
        /\ requests[i].req.headers.authorization = Bearer(requests[j].fetched)

\* The positions a handler can move to from position pc.
Following(pc) ==
    CASE pc = "checking"  -> {"fetching", "forwarded", "rejected"}
      [] pc = "fetching"  -> {"forwarded", "rejected"}
      [] pc = "forwarded" -> {"responded"}
      [] OTHER            -> {}

\* C30: a handler checks at most once and then fetches at most once: it
\* never returns to its check, never starts a second fetch, and goes from
\* its fetch straight to the proxy with the token fetched; every call of
\* fetchToken belongs to one request, so the fetches are at most as many as
\* the requests.
OneCheckOneFetch ==
    [][/\ \A i \in DOMAIN requests :
             LET r == requests[i]  q == requests'[i] IN
             q # r =>
                 /\ q.pc \in Following(r.pc)
                 /\ r.fetch # 0 => q.fetch = r.fetch
                 /\ q.checked = r.checked /\ q.introspected = r.introspected
                 /\ r.pc # "checking" => q.error = r.error /\ q.expired = r.expired
                 /\ (r.pc = "fetching" /\ q.pc = "forwarded") =>
                       /\ q.fetched = Str(TokenOf(r.fetch))
                       /\ q.req.headers.authorization = Bearer(q.fetched)
       /\ \A i \in DOMAIN requests' :
             LET q == requests'[i] IN
             /\ q.fetch # 0 => q.expired = "true"
             /\ q.fetch # 0 => q.fetch \in DOMAIN fetchLog' /\ fetchLog'[q.fetch] = q.checked
             /\ q.introspected = (q.error # "pending" \/ q.pc = "checking")
       /\ \A k \in DOMAIN fetchLog' :
             Cardinality({i \in DOMAIN requests' : requests'[i].fetch = k}) = 1
       /\ Len(fetchLog') <= Len(requests')]_vars

\* Every request received has fetched, one of them after a check of the
\* cached token, and was forwarded with its own token.
OneCheckOneFetchWitness ==
    /\ Len(requests) = MaxReqs
    /\ Len(fetchLog) = Len(requests)
    /\ \A i \in DOMAIN requests : Sent(i) /\ requests[i].fetched # Null
    /\ \E i \in DOMAIN requests :
          requests[i].introspected /\ requests[i].error = "TokenExpiredError"

\* The fetches that have succeeded: the requests that hold a token of their
\* own.
Fetched == {i \in DOMAIN requests : requests[i].fetched # Null}

\* C31: the cache is absent exactly as long as no fetch has succeeded; a
\* cache that holds a token never becomes absent, and the cache changes
\* only in the step in which a fetch succeeds, to the token of that fetch.
AbsentOnlyBeforeFirstFetch ==
    [][/\ (token' = Null) = ({i \in DOMAIN requests' : requests'[i].fetched # Null} = {})
       /\ token # Null => token' # Null
       /\ Fetched # {} => token' # Null
       /\ token' # token =>
             \E i \in DOMAIN requests :
                 /\ requests[i].pc = "fetching"
                 /\ requests[i].fetched = Null
                 /\ requests'[i].fetched = Str(TokenOf(requests[i].fetch))
                 /\ token' = requests'[i].fetched]_vars

\* After a first fetch has succeeded, a check has reported the cached token
\* expired and a later fetch has failed: the cache still holds the token
\* while its replacement is being fetched.
AbsentOnlyWitness ==
    /\ token # Null
    /\ \E i, j \in DOMAIN requests :
          /\ requests[i].pc = "fetching"
          /\ requests[i].checked = token
          /\ requests[j].pc = "rejected" /\ requests[j].cause = "fetch"
          /\ requests[j].checked = token

\* The polls of sshTunnel:start are at most 5, all but the last found no
\* process, a process found before the spawn was handed to stopTunnel
\* first, and a finished start has reported success exactly when its last
\* poll found a process and failure only after its 5th poll.
StartTunnelBounded ==
    tunnel.cmd = "start" =>
        /\ Len(tunnel.polls) <= PollAttempts
        /\ \A k \in 1..(Len(tunnel.polls) - 1) : tunnel.polls[k] = Null
        /\ tunnel.occupant # Null =>
              /\ tunnel.out[1] = "Port is already in use"
              /\ tunnel.out[Len(tunnel.out)] # "Port is already in use"
        /\ tunnel.spawned # Null /\ tunnel.child # Null
        /\ tunnel.pc = "done" =>
              /\ Len(tunnel.polls) >= 1
              /\ tunnel.started = (tunnel.polls[Len(tunnel.polls)] # Null)
              /\ ~tunnel.started => Len(tunnel.polls) = PollAttempts

\* A start that is suspended in its loop comes to its end.
StartTunnelTerminates == (tunnel.pc = "sleeping") ~> (tunnel.pc = "done")

\* A start reports success only with the PID of the process it spawned.
StartReportsOwnTunnel ==
    (tunnel.cmd = "start" /\ tunnel.started) =>
        tunnel.polls[Len(tunnel.polls)] = tunnel.child

\* C32 as stated: startTunnel terminates after at most 5 polls, stops an
\* occupying process before it spawns, stops polling at the first process
\* found, and reports the tunnel as started only if that process is the
\* one it spawned.
StartTunnelSound ==
    /\ []StartTunnelBounded
    /\ StartTunnelTerminates
    /\ []StartReportsOwnTunnel

====
